---- MODULE Spec2Model ----
(***************************************************************************)
(* A model of the Lumous gallery front end: the streaming synchronisation  *)
(* of the react-query cache of file records with the indexer's events      *)
(* (App), the folder scoping predicate, and the reset action of the folder *)
(* tree.                                                                   *)
(*                                                                         *)
(* Strings are sequences of one-character strings, so that toLowerCase,    *)
(* startsWith, lastIndexOf and substring are computed as JavaScript        *)
(* computes them.                                                          *)
(***************************************************************************)
EXTENDS Integers, Sequences, FiniteSets, TLC

VARIABLES
  selectedFolder,    \* App: useState selectedFolder (NULL or a folder path)
  isIndexing,        \* App: useState isIndexing
  indexingProgress,  \* App: useState indexingProgress
  queryData,         \* react-query cache: data of ["files", folder], per folder
  fetch,             \* the get_files call in flight for ["files", folder], per folder
  handlers,          \* the registered listeners: records [type, sel]
  setups,            \* the running setupEventListeners calls: records [sel, pc]
  restoring,         \* the mount effect awaits get_library_state
  db,                \* the backend's indexed records, per folder
  indexed,           \* the folders the backend reports as indexed
  lastSelected,      \* the backend's last_selected_folder
  indexer,           \* the backend's indexing run per folder: [st, ups, del]
  ops,               \* number of operations of the user so far
  last,              \* history: the event delivered by the last step
  repeated,          \* history: the step before delivered the same event
  scen,              \* history: progress through the end-to-end scenario
  prior,             \* history: records held when a summary made the query refetch
  filePath,          \* scope check: the file path
  folderPath,        \* scope check: the folder path
  scoped,            \* scope check: results of the predicates
  heap,              \* the arrays allocated so far, by reference
  images,            \* gallery store: the reference of its images array
  allFiles,          \* query data of the selected folder: 0 (undefined) or a reference
  view,              \* Gallery: the reference of filteredAndSortedImages
  folders,           \* FolderExplorer: the folders prop, the indexed folders
  treeRoots,         \* FolderExplorer: the tree built from folders
  selectedPath,      \* FolderExplorer: the selectedFolder prop
  isOpen,            \* FolderTreeItem: the nodes whose useState isOpen is true
  named,             \* name order: the files, images or nodes to put in order
  listing,           \* name order: the same in the order shown
  shown,             \* name order: what put them in order, and the direction
  containerSize,     \* FileGrid: useState containerSize, [width, height]
  thumbnailSize,     \* FileGrid: the thumbnailSize prop
  imagesPerRow,      \* FileGrid: the imagesPerRow prop, 0 for null
  fileCount,         \* FileGrid: files.length
  scrollOffset,      \* Grid: the scroll position, [top, left]
  cells,             \* Grid: the cells <<row, column>> it has rendered
  drawn,             \* FileGrid: the indices of the files cellRenderer has drawn
  selectedImageIndex, \* FileGrid: useState selectedImageIndex, -1 for null
  store,             \* gallery store: [images, currentFolder, isLoading]
  scanning,          \* the scan_folder calls in flight, in the order of the
                     \* calls: [folderPath, latest]
  requested          \* history: the folder of the last scanFolder call, and
                     \* whether that call has not failed

appVars == <<selectedFolder, isIndexing, indexingProgress, queryData, fetch,
             handlers, setups, restoring>>
backendVars == <<db, indexed, lastSelected, indexer>>
histVars == <<ops, last, repeated, scen, prior>>
viewVars == <<heap, images, allFiles, view>>
treeVars == <<folders, treeRoots>>
openVars == <<selectedPath, isOpen>>
viewerVars == <<selectedImageIndex>>
scanVars == <<store, scanning, requested>>
sortVars == <<named, listing, shown>>
gridVars == <<containerSize, thumbnailSize, imagesPerRow, fileCount,
              scrollOffset, cells, drawn>>
libVars == <<viewVars, treeVars, openVars, sortVars, gridVars, viewerVars,
             scanVars>>
scopeVars == <<filePath, folderPath, scoped, libVars>>
vars == <<appVars, backendVars, histVars, scopeVars>>

-----------------------------------------------------------------------------
(* Strings *)

\* null, and the empty string: both are falsy in "if (selectedFolder)"
NULL == <<>>

Upper == <<"A", "B", "C", "D", "E", "F", "G", "H", "I", "J", "K", "L", "M",
           "N", "O", "P", "Q", "R", "S", "T", "U", "V", "W", "X", "Y", "Z">>
Lower == <<"a", "b", "c", "d", "e", "f", "g", "h", "i", "j", "k", "l", "m",
           "n", "o", "p", "q", "r", "s", "t", "u", "v", "w", "x", "y", "z">>

\* The lower-case form of each letter, and every other character itself
LowerOf ==
  [c \in {Upper[i] : i \in 1..Len(Upper)} |->
     Lower[CHOOSE i \in 1..Len(Upper) : Upper[i] = c]]

LowerChar(c) == IF c \in DOMAIN LowerOf THEN LowerOf[c] ELSE c

\* String.prototype.toLowerCase
toLowerCase(s) == [i \in 1..Len(s) |-> LowerChar(s[i])]

\* String.prototype.startsWith
startsWith(s, p) == Len(p) <= Len(s) /\ SubSeq(s, 1, Len(p)) = p

\* String.prototype.lastIndexOf for a one-character needle; 0-based, -1 if absent
lastIndexOf(s, c) ==
  IF \E i \in 1..Len(s) : s[i] = c
  THEN (CHOOSE i \in 1..Len(s) : s[i] = c /\ \A j \in (i+1)..Len(s) : s[j] # c) - 1
  ELSE -1

\* String.prototype.substring(0, e): a negative end counts as 0
substring0(s, e) ==
  LET n == IF e < 0 THEN 0 ELSE IF e > Len(s) THEN Len(s) ELSE e
  IN SubSeq(s, 1, n)

\* p.replace(/\\/g, "/")
replaceBackslashes(s) == [i \in 1..Len(s) |-> IF s[i] = "\\" THEN "/" ELSE s[i]]

\* const norm = (p: string) => p.toLowerCase();
norm(p) == toLowerCase(p)

\* The normalized path of the specification: lower-cased, separators unified.
NormalizedPath(p) == toLowerCase(replaceBackslashes(p))

-----------------------------------------------------------------------------
(* The updaters the listeners hand to queryClient.setQueryData.  Query data *)
(* is [defined, list]: undefined (no data yet) differs from the empty list. *)

UNDEFINED == [defined |-> FALSE, list |-> <<>>]
Data(l) == [defined |-> TRUE, list |-> l]

\* A variant of FileIndexedUpdater that appends without looking for the path
FileIndexedUpdaterNoLookup(oldData, file) ==
  IF ~oldData.defined THEN Data(<<file>>) ELSE Data(Append(oldData.list, file))

\* 'file-indexed': add the file unless a record with its path is present
FileIndexedUpdater(oldData, file) ==
  IF ~oldData.defined THEN Data(<<file>>)
  ELSE IF \E i \in 1..Len(oldData.list) :
            norm(oldData.list[i].path) = norm(file.path)
       THEN oldData
       ELSE Data(Append(oldData.list, file))

\* Map.prototype.set on a map kept as the sequence of its values in key order:
\* an existing key keeps its position and takes the new value
MapSet(m, f) ==
  IF \E i \in 1..Len(m) : norm(m[i].path) = norm(f.path)
  THEN LET i == CHOOSE i \in 1..Len(m) : norm(m[i].path) = norm(f.path)
       IN [m EXCEPT ![i] = f]
  ELSE Append(m, f)

RECURSIVE MapSetAll(_, _)
MapSetAll(m, fs) ==
  IF fs = <<>> THEN m ELSE MapSetAll(MapSet(m, Head(fs)), Tail(fs))

\* A variant of BatchUpdater that stops after the first record of the batch
BatchUpdaterFirstOnly(oldData, forThisFolder) ==
  Data(MapSet(IF oldData.defined THEN MapSetAll(<<>>, oldData.list) ELSE <<>>,
              Head(forThisFolder)))

\* 'files-indexed-batch': the old records, then the batch, through one Map
BatchUpdater(oldData, forThisFolder) ==
  Data(MapSetAll(IF oldData.defined THEN MapSetAll(<<>>, oldData.list) ELSE <<>>,
                 forThisFolder))

\* 'file-updated': replace the first record with the path, or append
FileUpdatedUpdater(oldData, updated) ==
  IF ~oldData.defined THEN Data(<<updated>>)
  ELSE LET old == oldData.list
           hit(i) == norm(old[i].path) = norm(updated.path)
       IN IF \E i \in 1..Len(old) : hit(i)
          THEN LET idx == CHOOSE i \in 1..Len(old) :
                            hit(i) /\ \A j \in 1..(i-1) : ~hit(j)
               IN Data([old EXCEPT ![idx] = updated])
          ELSE Data(Append(old, updated))

\* file.path.toLowerCase().startsWith(selectedFolder.toLowerCase())
InFolder(file, sel) == startsWith(toLowerCase(file.path), toLowerCase(sel))

\* batch.filter(f => f.path.toLowerCase().startsWith(folderLc))
RECURSIVE Filter(_, _)
Filter(batch, sel) ==
  IF batch = <<>> THEN <<>>
  ELSE IF InFolder(Head(batch), sel)
       THEN <<Head(batch)>> \o Filter(Tail(batch), sel)
       ELSE Filter(Tail(batch), sel)

-----------------------------------------------------------------------------
(* Folders, records and events *)

FolderA == <<"a">>
FolderB == <<"b">>
Folders == {FolderA, FolderB}

\* A FileMeta: its path, and ver standing for the rest of its contents
File(p, v) == [path |-> p, ver |-> v]

f1  == File(<<"a", "/", "x">>, 1)
f1n == File(<<"a", "/", "x">>, 2)    \* f1's path, newer contents
f2  == File(<<"A", "/", "y">>, 1)    \* a second file of folder a
g   == File(<<"a", "\\", "x">>, 1)   \* f1's path written with the other separator
h   == File(<<"b", "/", "x">>, 1)    \* a file of folder b

\* The listeners in the order setupEventListeners registers them
Types == <<"indexing-progress", "indexing-started", "indexing-completed",
           "indexing-completed-summary", "file-indexed", "files-indexed-batch",
           "file-updated">>

\* An event: its name and its payload (root, file records, the summary's counts)
Ev(type, root, files, total, upserted, deleted, unchanged) ==
  [type |-> type, root |-> root, files |-> files, total |-> total,
   upserted |-> upserted, deleted |-> deleted, unchanged |-> unchanged]

NoEvent == Ev("none", NULL, <<>>, 0, 0, 0, 0)
Progress(r) == Ev("indexing-progress", r, <<>>, 0, 0, 0, 0)
Started(r) == Ev("indexing-started", r, <<>>, 0, 0, 0, 0)
Completed(r) == Ev("indexing-completed", r, <<>>, 0, 0, 0, 0)
CompletedSummary(r, t, u, d, n) == Ev("indexing-completed-summary", r, <<>>, t, u, d, n)
RecordUpsert(f) == Ev("file-indexed", NULL, <<f>>, 0, 0, 0, 0)
RecordBatchUpsert(fs) == Ev("files-indexed-batch", NULL, fs, 0, 0, 0, 0)
RecordUpdate(f) == Ev("file-updated", NULL, <<f>>, 0, 0, 0, 0)
\* 'file-updated' with a null payload
RecordUpdateNull == Ev("file-updated", NULL, <<>>, 0, 0, 0, 0)

-----------------------------------------------------------------------------
(* The listeners.  c is the query cache, [data, fetch], each per folder; sel *)
(* is the selectedFolder the listener captured; cur is the folder whose      *)
(* query is observed (the current selectedFolder) when the listener runs.    *)

Idle == [st |-> "idle", resp |-> <<>>]
Pending == [st |-> "pending", resp |-> <<>>]
Served(l) == [st |-> "served", resp |-> l]

\* queryClient.invalidateQueries({ queryKey: ["files", k] }): an observed query
\* is fetched again, and a fetch in flight for it is cancelled; a query
\* nobody observes is only marked, and is fetched when it is next observed.
Invalidate(c, k, cur) ==
  IF k = cur THEN [c EXCEPT !.fetch[k] = Pending] ELSE c

\* listen('indexing-completed', ...): its cache part
OnCompleted(sel, c, cur) ==
  IF sel # NULL THEN Invalidate(c, sel, cur) ELSE c

\* A summary listener that treats the summary as replace-all: it drops the
\* folder's records when it makes the query fetch again
OnCompletedSummaryEvicts(sel, payload, c, cur) ==
  IF payload.upserted > 0 \/ payload.deleted > 0
  THEN IF /\ sel # NULL
          /\ payload.root # NULL
          /\ toLowerCase(sel) = toLowerCase(payload.root)
       THEN [Invalidate(c, sel, cur) EXCEPT !.data[sel] = Data(<<>>)]
       ELSE c
  ELSE c

\* listen('indexing-completed-summary', ...): its cache part
OnCompletedSummary(sel, payload, c, cur) ==
  IF payload.upserted > 0 \/ payload.deleted > 0
  THEN IF /\ sel # NULL
          /\ payload.root # NULL
          /\ toLowerCase(sel) = toLowerCase(payload.root)
       THEN Invalidate(c, sel, cur)
       ELSE c
  ELSE c

\* listen('file-indexed', ...)
OnFileIndexed(sel, file, c) ==
  IF sel # NULL /\ InFolder(file, sel)
  THEN [c EXCEPT !.data[sel] = FileIndexedUpdater(@, file)]
  ELSE c

\* listen('files-indexed-batch', ...)
OnBatch(sel, batch, c) ==
  IF batch = <<>> THEN c
  ELSE IF sel # NULL
       THEN LET forThisFolder == Filter(batch, sel)
            IN IF forThisFolder = <<>> THEN c
               ELSE [c EXCEPT !.data[sel] = BatchUpdater(@, forThisFolder)]
       ELSE c

\* listen('file-updated', ...)
OnFileUpdated(sel, files, c) ==
  IF files = <<>> THEN c
  ELSE LET updated == files[1]
       IN IF sel # NULL
          THEN IF ~InFolder(updated, sel) THEN c
               ELSE [c EXCEPT !.data[sel] = FileUpdatedUpdater(@, updated)]
          ELSE c

\* One listener of ev.type, which captured sel, run on the cache c
Listener(ev, sel, c, cur) ==
  CASE ev.type = "indexing-completed" -> OnCompleted(sel, c, cur)
    [] ev.type = "indexing-completed-summary" -> OnCompletedSummary(sel, ev, c, cur)
    [] ev.type = "file-indexed" -> OnFileIndexed(sel, ev.files[1], c)
    [] ev.type = "files-indexed-batch" -> OnBatch(sel, ev.files, c)
    [] ev.type = "file-updated" -> OnFileUpdated(sel, ev.files, c)
    [] OTHER -> c

\* The captured folders of the listeners registered for an event
Targets(ev) == {hd.sel : hd \in {x \in handlers : x.type = ev.type}}

\* Every registered listener of the event, run one after the other.  A
\* listener writes only the query of the folder it captured, so the order of
\* the listeners does not matter, and two listeners that captured the same
\* folder write what one writes.
Dispatch(ev, c, cur) ==
  LET targets == Targets(ev)
      ran == [k \in Folders |->
                IF k \in targets THEN Listener(ev, k, c, cur) ELSE c]
  IN [data  |-> [k \in Folders |-> ran[k].data[k]],
      fetch |-> [k \in Folders |-> ran[k].fetch[k]]]

-----------------------------------------------------------------------------
(* History variables of the properties *)

\* All seven listeners of the folder are registered
Listening(r) == \A i \in 1..Len(Types) : [type |-> Types[i], sel |-> r] \in handlers

\* The end-to-end scenario on folder a, applied to an empty collection while a
\* is selected and listened to: Started, RecordBatchUpsert [f1, f2],
\* RecordUpsert f1' ('file-indexed' or 'file-updated'), CompletedSummary.
ScenarioStep(ev) ==
  IF ~(selectedFolder = FolderA /\ Listening(FolderA)) THEN 0
  ELSE IF ev = Started(FolderA) /\ queryData[FolderA].list = <<>> THEN 1
  ELSE IF scen = 1 /\ ev = RecordBatchUpsert(<<f1, f2>>) THEN 2
  ELSE IF scen = 2 /\ ev \in {RecordUpsert(f1n), RecordUpdate(f1n)} THEN 3
  ELSE IF scen = 3 /\ ev = CompletedSummary(FolderA, 2, 2, 0, 0) THEN 4
  ELSE 0

NoPrior == [key |-> NULL, paths |-> {}]

Paths(l) == {l[i].path : i \in 1..Len(l)}

\* The records of the observed folder at the moment a summary event makes its
\* query fetch again
PriorOf(ev, c2) ==
  IF /\ ev.type = "indexing-completed-summary"
     /\ selectedFolder # NULL
     /\ selectedFolder \in Targets(ev)
     /\ c2.fetch[selectedFolder] = Pending
     /\ c2 # [data |-> queryData, fetch |-> fetch]
  THEN [key |-> selectedFolder, paths |-> Paths(queryData[selectedFolder].list)]
  ELSE NoPrior

-----------------------------------------------------------------------------
(* Delivery of an event to the listeners registered for it *)

Deliver(ev) ==
  LET c2 == Dispatch(ev, [data |-> queryData, fetch |-> fetch], selectedFolder)
      heard == Targets(ev) # {}
  IN /\ queryData' = c2.data
     /\ fetch' = c2.fetch
     /\ isIndexing' =
          IF heard /\ ev.type = "indexing-started" THEN TRUE
          ELSE IF heard /\ ev.type \in {"indexing-completed",
                                        "indexing-completed-summary"} THEN FALSE
          ELSE isIndexing
     /\ indexingProgress' =
          IF heard /\ ev.type = "indexing-progress" THEN "progress"
          ELSE IF heard /\ ev.type = "indexing-started" THEN "Starting indexing..."
          ELSE IF heard /\ ev.type \in {"indexing-completed",
                                        "indexing-completed-summary"} THEN ""
          ELSE indexingProgress
     /\ prior' = PriorOf(ev, c2)
     /\ UNCHANGED <<selectedFolder, handlers, setups, restoring>>

-----------------------------------------------------------------------------
(* Page load and reset *)

\* The state of the front end when the page has loaded: the mount effects run
MountRun == [sel |-> NULL, pc |-> 0]

Mounted ==
  /\ selectedFolder = NULL
  /\ isIndexing = FALSE
  /\ indexingProgress = ""
  /\ queryData = [k \in Folders |-> UNDEFINED]
  /\ fetch = [k \in Folders |-> Idle]
  /\ handlers = {}
  /\ setups = <<MountRun>>
  /\ restoring = TRUE

\* window.location.reload(): the front end starts again
Reload ==
  /\ selectedFolder' = NULL
  /\ isIndexing' = FALSE
  /\ indexingProgress' = ""
  /\ queryData' = [k \in Folders |-> UNDEFINED]
  /\ fetch' = [k \in Folders |-> Idle]
  /\ handlers' = {}
  /\ setups' = <<MountRun>>
  /\ restoring' = TRUE

\* The number of operations of the user in a session
MaxOps == 4

NoOp == UNCHANGED ops
Op == ops < MaxOps /\ ops' = ops + 1

\* The marker of a step that resets a folder
ResetDone(r) == Ev("reset", r, <<>>, 0, 0, 0, 0)

\* "Reset" in the dialog of a folder's tree item: reset_folder makes the
\* backend forget the folder, and the page reloads if the folder is the
\* selected one
ResetFolder(f) ==
  /\ f \in indexed
  /\ selectedFolder # NULL
  /\ db' = [db EXCEPT ![f] = <<>>]
  /\ indexed' = indexed \ {f}
  /\ IF selectedFolder = f
     THEN Reload
     ELSE UNCHANGED appVars
  /\ last' = ResetDone(f) /\ repeated' = FALSE /\ scen' = 0
  /\ prior' = NoPrior
  /\ UNCHANGED <<lastSelected, indexer, scopeVars>>

\* History of a step of the event stream: the event, whether it repeats the
\* one before, and the position in the end-to-end scenario
Streamed(ev) ==
  /\ last' = ev
  /\ repeated' = (last = ev)
  /\ scen' = ScenarioStep(ev)

-----------------------------------------------------------------------------
(* SpecMerge: the listeners of a running session under an arbitrary stream  *)
(* of events.  The folders visited so far have their listeners registered   *)
(* (listeners are never unregistered: the effect's cleanup is the resolved  *)
(* value of an async function, which React never calls), folder a is        *)
(* selected, and get_files answers late.                                    *)

AllHandlers(S) ==
  {[type |-> Types[i], sel |-> r] : i \in 1..Len(Types), r \in S \cup {NULL}}

\* An indexing run of the backend: its state, the numbers of records it has
\* upserted and deleted
IdleIndexer == [st |-> "idle", ups |-> 0, del |-> 0]

BackendInit ==
  /\ db = [k \in Folders |-> <<>>]
  /\ indexed = {}
  /\ lastSelected = NULL
  /\ indexer = [k \in Folders |-> IdleIndexer]

HistInit ==
  /\ ops = 0
  /\ last = NoEvent
  /\ repeated = FALSE
  /\ scen = 0
  /\ prior = NoPrior

ScopeIdle ==
  /\ filePath = <<>>
  /\ folderPath = <<>>
  /\ scoped = [exact |-> FALSE, listener |-> FALSE, done |-> {}]

\* The gallery store as created: images: [], and no query data
ViewsIdle ==
  /\ heap = << <<>> >>
  /\ images = 1
  /\ allFiles = 0
  /\ view = 0

\* FolderExplorer before any folder is indexed
TreeIdle ==
  /\ folders = <<>>
  /\ treeRoots = <<>>

\* Nothing to put in order
SortIdle ==
  /\ named = <<>>
  /\ listing = <<>>
  /\ shown = [by |-> "none", dir |-> "asc"]

\* The gallery store as created, no scan_folder call made
ScanIdle ==
  /\ store = [images |-> <<>>, currentFolder |-> NULL, isLoading |-> FALSE]
  /\ scanning = <<>>
  /\ requested = [folderPath |-> NULL, ok |-> TRUE]

\* The image viewer is closed
ViewerIdle == selectedImageIndex = -1

\* No folder selected in the tree, every node closed
OpenIdle ==
  /\ selectedPath = <<>>
  /\ isOpen = {}

\* FileGrid without files, before its container is measured
GridIdle ==
  /\ containerSize = [width |-> 0, height |-> 0]
  /\ thumbnailSize = 200
  /\ imagesPerRow = 0
  /\ fileCount = 0
  /\ scrollOffset = [top |-> 0, left |-> 0]
  /\ cells = {}
  /\ drawn = {}

LibIdle ==
  /\ ViewsIdle /\ TreeIdle /\ OpenIdle /\ SortIdle /\ GridIdle /\ ViewerIdle
  /\ ScanIdle

MergeInit ==
  /\ selectedFolder = FolderA
  /\ \E visited \in SUBSET Folders :
       /\ selectedFolder \in visited
       /\ handlers = AllHandlers(visited)
       /\ indexed = visited
  /\ isIndexing = FALSE
  /\ indexingProgress = ""
  /\ queryData = [k \in Folders |-> UNDEFINED]
  /\ fetch = [k \in Folders |-> Idle]
  /\ setups = <<>>
  /\ restoring = FALSE
  /\ db = [k \in Folders |-> <<>>]
  /\ lastSelected = selectedFolder
  /\ indexer = [k \in Folders |-> IdleIndexer]
  /\ HistInit
  /\ ScopeIdle /\ LibIdle

\* The batches the stream carries
Batches == {<<>>, <<f1, f2>>, <<f1n, g>>, <<f2, h>>, <<f1, f1n>>}

MergeFrame == UNCHANGED <<backendVars, ops, scopeVars>>

\* The stream carries the event
Carries(ev) == Deliver(ev) /\ Streamed(ev)

MergeStarted == \E r \in Folders : Carries(Started(r)) /\ MergeFrame
MergeProgress == \E r \in Folders : Carries(Progress(r)) /\ MergeFrame
MergeCompleted == \E r \in Folders : Carries(Completed(r)) /\ MergeFrame
MergeCompletedSummary ==
  \E r \in Folders, n \in {<<0, 0>>, <<2, 0>>, <<0, 1>>} :
    Carries(CompletedSummary(r, 2, n[1], n[2], 2 - n[1])) /\ MergeFrame
MergeFileIndexed ==
  \E f \in {f1, f1n, f2, g, h} : Carries(RecordUpsert(f)) /\ MergeFrame
MergeBatch == \E b \in Batches : Carries(RecordBatchUpsert(b)) /\ MergeFrame
MergeFileUpdated ==
  \E e \in {RecordUpdate(f) : f \in {f1, f1n, f2, g, h}} \cup {RecordUpdateNull} :
    Carries(e) /\ MergeFrame

MergeReset == \E f \in Folders : NoOp /\ ResetFolder(f)

MergeNext ==
  \/ MergeStarted
  \/ MergeProgress
  \/ MergeCompleted
  \/ MergeCompletedSummary
  \/ MergeFileIndexed
  \/ MergeBatch
  \/ MergeFileUpdated
  \/ MergeReset

SpecMerge == MergeInit /\ [][MergeNext]_vars

-----------------------------------------------------------------------------
(* Spec: the session.  The user selects, re-indexes and resets a folder of   *)
(* the library; the effects register listeners; the backend indexes, emits   *)
(* events and answers get_files.  An event is delivered to the listeners     *)
(* registered when it is emitted; the backend's store changes with the       *)
(* emission.                                                                 *)

\* The folders the user picks in the session
Picked == {FolderA}

\* The records the indexer finds in a folder
PoolOf(r) == IF r = FolderA THEN {f1} ELSE {h}

Init == Mounted /\ BackendInit /\ HistInit /\ ScopeIdle /\ LibIdle

\* History of a step that emits an event: its type and root
Emitted(ev) ==
  /\ last' = Ev(ev.type, ev.root, <<>>, 0, 0, 0, 0)
  /\ repeated' = FALSE
  /\ scen' = 0

\* History of a step that emits no event
Quiet == last' = NoEvent /\ repeated' = FALSE /\ scen' = 0
\* setSelectedFolder(f) and the render that follows: when the folder changes,
\* the listeners effect runs again and the query of the new folder is observed,
\* which fetches it unless a fetch of it is in flight
SetSelectedFolder(f) ==
  /\ selectedFolder' = f
  /\ IF f # selectedFolder
     THEN /\ setups' = Append(setups, [sel |-> f, pc |-> 0])
          /\ fetch' = IF f # NULL /\ fetch[f] = Idle
                      THEN [fetch EXCEPT ![f] = Pending] ELSE fetch
     ELSE UNCHANGED <<setups, fetch>>

\* One "await listen(...)" of a setupEventListeners call: the next listener is
\* registered.  The function returned after the seventh is dropped.
SetupStep ==
  \E i \in 1..Len(setups) :
    LET run == setups[i]
    IN /\ handlers' = handlers \cup {[type |-> Types[run.pc + 1], sel |-> run.sel]}
       /\ setups' = IF run.pc + 1 = Len(Types)
                    THEN SubSeq(setups, 1, i - 1) \o SubSeq(setups, i + 1, Len(setups))
                    ELSE [setups EXCEPT ![i].pc = run.pc + 1]
       /\ Quiet /\ NoOp /\ UNCHANGED prior
       /\ UNCHANGED <<selectedFolder, isIndexing, indexingProgress, queryData,
                      fetch, restoring, backendVars, scopeVars>>

\* The mount effect: get_library_state answers
RestoreLibraryState ==
  /\ restoring
  /\ restoring' = FALSE
  /\ IF indexed # {}
     THEN \E toSelect \in indexed :
            /\ lastSelected \in indexed => toSelect = lastSelected
            /\ SetSelectedFolder(toSelect)
     ELSE UNCHANGED <<selectedFolder, setups, fetch>>
  /\ Quiet /\ NoOp /\ prior' = NoPrior
  /\ UNCHANGED <<isIndexing, indexingProgress, queryData, handlers, backendVars,
                 scopeVars>>

\* handleFolderSelect: the folder is selected and stored as the last selected;
\* is_folder_indexed answers, and index_folder_streaming is invoked for a
\* folder that is not indexed; when an invoke fails, the catch block turns the
\* indicator off.  The user picks while no listener registration is under way.
HandleFolderSelect ==
  \E f \in Picked, answered \in BOOLEAN :
    /\ setups = <<>>
    /\ Op
    /\ SetSelectedFolder(f)
    /\ lastSelected' = f
    /\ IF answered
       THEN /\ indexer' = IF f \notin indexed /\ indexer[f].st = "idle"
                          THEN [indexer EXCEPT ![f].st = "requested"] ELSE indexer
            /\ UNCHANGED <<isIndexing, indexingProgress>>
       ELSE /\ isIndexing' = FALSE
            /\ indexingProgress' = ""
            /\ UNCHANGED indexer
    /\ Quiet /\ prior' = NoPrior
    /\ UNCHANGED <<queryData, handlers, restoring, db, indexed, scopeVars>>

\* The "Re-index" item of an indexed folder's menu
ReIndex ==
  \E f \in indexed :
    /\ selectedFolder # NULL
    /\ indexer[f].st = "idle"
    /\ Op
    /\ indexer' = [indexer EXCEPT ![f].st = "requested"]
    /\ Quiet /\ prior' = NoPrior
    /\ UNCHANGED <<appVars, db, indexed, lastSelected, scopeVars>>

AppFrame == UNCHANGED <<indexed, lastSelected, scopeVars>>

\* index_folder_streaming begins: 'indexing-started'
IndexerStart ==
  \E r \in Folders :
    /\ indexer[r].st = "requested"
    /\ indexer' = [indexer EXCEPT ![r] = [st |-> "running", ups |-> 0, del |-> 0]]
    /\ Deliver(Started(r)) /\ Emitted(Started(r))
    /\ NoOp /\ UNCHANGED db /\ AppFrame

IndexerProgress ==
  \E r \in Folders :
    /\ indexer[r].st = "running"
    /\ Deliver(Progress(r)) /\ Emitted(Progress(r))
    /\ NoOp /\ UNCHANGED <<db, indexer>> /\ AppFrame

\* The backend's store of a folder after the upsert of a record
Stored(l, f) ==
  IF \E i \in 1..Len(l) : l[i].path = f.path
  THEN [i \in 1..Len(l) |-> IF l[i].path = f.path THEN f ELSE l[i]]
  ELSE Append(l, f)

Upserts(r, f) ==
  /\ indexer[r].st = "running"
  /\ NoOp
  /\ db' = [db EXCEPT ![r] = Stored(@, f)]
  /\ indexer' = [indexer EXCEPT ![r].ups = 1]
  /\ AppFrame

IndexerFileIndexed ==
  \E r \in Folders : \E f \in PoolOf(r) :
    Upserts(r, f) /\ Deliver(RecordUpsert(f)) /\ Emitted(RecordUpsert(f))

IndexerBatch ==
  \E r \in Folders : \E f \in PoolOf(r) :
    /\ Upserts(r, f)
    /\ Deliver(RecordBatchUpsert(<<f>>)) /\ Emitted(RecordBatchUpsert(<<f>>))

IndexerFileUpdated ==
  \E r \in Folders : \E f \in PoolOf(r) :
    Upserts(r, f) /\ Deliver(RecordUpdate(f)) /\ Emitted(RecordUpdate(f))

\* The run finds, before it indexes, that a stored file is gone: the record
\* leaves the store, and only the summary's count tells
IndexerDelete ==
  \E r \in Folders :
    /\ indexer[r].st = "running"
    /\ indexer[r].ups = 0
    /\ db[r] # <<>>
    /\ NoOp
    /\ db' = [db EXCEPT ![r] = Tail(@)]
    /\ indexer' = [indexer EXCEPT ![r].del = 1]
    /\ Quiet /\ prior' = NoPrior
    /\ UNCHANGED appVars /\ AppFrame

Finishes(r) ==
  /\ indexer[r].st = "running"
  /\ indexer' = [indexer EXCEPT ![r] = IdleIndexer]
  /\ indexed' = indexed \cup {r}
  /\ NoOp /\ UNCHANGED <<db, lastSelected, scopeVars>>

\* The run ends with the older 'indexing-completed'
IndexerCompleted ==
  \E r \in Folders : Finishes(r) /\ Deliver(Completed(r)) /\ Emitted(Completed(r))

\* The run ends with 'indexing-completed-summary'
IndexerCompletedSummary ==
  \E r \in Folders :
    /\ Finishes(r)
    /\ LET summary == CompletedSummary(r, Len(db[r]), indexer[r].ups,
                                       indexer[r].del,
                                       IF Len(db[r]) > indexer[r].ups
                                       THEN Len(db[r]) - indexer[r].ups ELSE 0)
       IN Deliver(summary) /\ Emitted(summary)

\* The backend answers get_files with the folder's stored records
GetFilesServes ==
  \E k \in Folders :
    /\ fetch[k] = Pending
    /\ fetch' = [fetch EXCEPT ![k] = Served(db[k])]
    /\ Quiet /\ NoOp /\ UNCHANGED prior
    /\ UNCHANGED <<selectedFolder, isIndexing, indexingProgress, queryData,
                   handlers, setups, restoring, backendVars, scopeVars>>

\* The queryFn returns: the answer becomes the query's data
GetFilesResolves ==
  \E k \in Folders :
    /\ fetch[k].st = "served"
    /\ queryData' = [queryData EXCEPT ![k] = Data(fetch[k].resp)]
    /\ fetch' = [fetch EXCEPT ![k] = Idle]
    /\ Quiet /\ NoOp /\ UNCHANGED prior
    /\ UNCHANGED <<selectedFolder, isIndexing, indexingProgress, handlers, setups,
                   restoring, backendVars, scopeVars>>

\* The user resets a folder
Reset == \E f \in Folders : Op /\ ResetFolder(f)

Next ==
  \/ SetupStep
  \/ RestoreLibraryState
  \/ HandleFolderSelect
  \/ ReIndex
  \/ IndexerStart
  \/ IndexerProgress
  \/ IndexerFileIndexed
  \/ IndexerBatch
  \/ IndexerFileUpdated
  \/ IndexerDelete
  \/ IndexerCompleted
  \/ IndexerCompletedSummary
  \/ GetFilesServes
  \/ GetFilesResolves
  \/ Reset

Spec == Init /\ [][Next]_vars

-----------------------------------------------------------------------------
(* SpecScope: the two checks that decide whether a file belongs to a folder, *)
(* applied to a file path and a folder path.                                 *)

\* a || b on numbers: a unless it is 0
OrElse(a, b) == IF a # 0 THEN a ELSE b

\* The filter of the folder scan: the file's folder is the path up to its last
\* separator, compared with the folder without regard to case
belongsToExactFolder(path, folder) ==
  LET fileFolder == substring0(path, OrElse(lastIndexOf(path, "\\"),
                                            lastIndexOf(path, "/")))
  IN toLowerCase(fileFolder) = toLowerCase(folder)

\* File paths: directly in folder p with either separator and in upper case,
\* in the sub-folder p\s or p/s, in the sibling pq, and under a leading
\* separator
ScopeFiles ==
  { <<"p", "\\", "a">>, <<"p", "/", "a">>, <<"P", "\\", "a">>,
    <<"p", "\\", "s", "\\", "a">>, <<"p", "/", "s", "/", "a">>,
    <<"p", "q", "\\", "a">>, <<"\\", "p", "/", "a">> }

ScopeFolders ==
  { <<"p">>, <<"P">>, <<"p", "\\", "s">>, <<"p", "/", "s">>, <<"\\", "p">> }

ScopeInit ==
  /\ Mounted /\ BackendInit /\ HistInit
  /\ filePath \in ScopeFiles
  /\ folderPath \in ScopeFolders
  /\ scoped = [exact |-> FALSE, listener |-> FALSE, done |-> {}]
  /\ LibIdle

ScopeFrame ==
  UNCHANGED <<appVars, backendVars, histVars, filePath, folderPath, libVars>>

\* The scan's filter decides
ScanFilter ==
  /\ "exact" \notin scoped.done
  /\ scoped' = [scoped EXCEPT !.exact = belongsToExactFolder(filePath, folderPath),
                              !.done = @ \cup {"exact"}]
  /\ ScopeFrame

\* The scope check of the 'file-indexed' and 'files-indexed-batch' listeners
\* decides
ListenerFilter ==
  /\ "listener" \notin scoped.done
  /\ scoped' = [scoped EXCEPT !.listener = InFolder([path |-> filePath], folderPath),
                              !.done = @ \cup {"listener"}]
  /\ ScopeFrame

ScopeNext ==
  \/ ScanFilter
  \/ ListenerFilter

SpecScope == ScopeInit /\ [][ScopeNext]_vars

-----------------------------------------------------------------------------
(* Properties *)

Records(k) == {queryData[k].list[i] : i \in 1..Len(queryData[k].list)}

\* The folders whose listener of the last event ran
Heard == Targets(last) \cap Folders

SingleUpserts == {"file-indexed", "file-updated"}

\* C1: after a single-record upsert ('file-indexed' or 'file-updated') has been
\* applied to a folder's collection, the collection holds the incoming record:
\* it replaced the record of its path, or was inserted.
C1_UpsertReplacesOrInserts ==
  (last.type \in SingleUpserts /\ last.files # <<>>) =>
    \A k \in Heard : InFolder(last.files[1], k) => last.files[1] \in Records(k)

\* C2: no two records of a folder's collection share a normalized path
\* (lower-cased, separators unified).
C2_NoDuplicateNormalizedPaths ==
  \A k \in Folders :
    \A i, j \in 1..Len(queryData[k].list) :
      i # j => NormalizedPath(queryData[k].list[i].path)
                 # NormalizedPath(queryData[k].list[j].path)

\* The record a batch leaves for the path of its i-th record: the last record
\* of the batch with that path
BatchFinal(batch, i) ==
  LET same == {j \in 1..Len(batch) : norm(batch[j].path) = norm(batch[i].path)}
  IN batch[CHOOSE j \in same : \A j2 \in same : j2 <= j]

\* C3: the state that follows the delivery of a batch holds, in the collection
\* of every folder whose listener ran, all the batch's records of that folder
\* (for each path the batch's last record): the batch is applied in one step,
\* never in part.
C3_BatchAppliedAtOnce ==
  last.type = "files-indexed-batch" =>
    \A k \in Heard :
      LET forThisFolder == Filter(last.files, k)
      IN \A i \in 1..Len(forThisFolder) :
           BatchFinal(forThisFolder, i) \in Records(k)

\* C3 witness: the batch [f1, f2] reached the empty collection of folder a,
\* which now holds both records
C3_Witness ==
  /\ scen = 2
  /\ last = RecordBatchUpsert(<<f1, f2>>)
  /\ queryData[FolderA].list = <<f1, f2>>

\* C4: delivering the single-record upsert that the step before delivered
\* leaves every collection as it is (same records, same order).
C4_UpsertIdempotent ==
  [][(last'.type \in SingleUpserts /\ last' = last) => queryData' = queryData]_vars

\* C4 witness: an upsert was delivered twice in succession and its folder's
\* collection holds a record of its path
C4_Witness ==
  /\ repeated
  /\ last.type \in SingleUpserts
  /\ last.files # <<>>
  /\ \E k \in Heard :
       \E r \in Records(k) : norm(r.path) = norm(last.files[1].path)

\* C5: after Started, RecordBatchUpsert [f1, f2], RecordUpsert f1' and
\* CompletedSummary{total 2, upserted 2} on the empty collection of folder a,
\* the collection is [f1', f2] and the folder is not syncing.
C5_EndToEnd ==
  scen = 4 => (queryData[FolderA].list = <<f1n, f2>> /\ ~isIndexing)

\* The events of a root that the sync-state machine of another root must
\* not react to
SyncEvents == {"indexing-started", "indexing-progress", "indexing-completed-summary"}

\* C6: sync state is kept per root: when the step before applied Started{R},
\* so that R is syncing, a Started, Progress or CompletedSummary event of a
\* different root leaves R syncing (the indicator stays on).
C6_SyncStatePerRoot ==
  [][(/\ last.type = "indexing-started"
      /\ Targets(last) # {}
      /\ last'.type \in SyncEvents
      /\ last'.root # last.root) => isIndexing']_vars

\* All delivered events have been applied and nothing is in flight: no
\* listener registration, no get_files call, no indexing run
Settled ==
  /\ setups = <<>>
  /\ ~restoring
  /\ \A k \in Folders : fetch[k] = Idle /\ indexer[k].st = "idle"

\* C7: no update is missed: once everything in flight has settled, the
\* collection of the selected folder holds a record for every path the
\* backend upserted (and announced with an upsert event) and still stores.
C7_NoUpdateMissed ==
  (selectedFolder # NULL /\ Settled) =>
    Paths(db[selectedFolder]) \subseteq Paths(queryData[selectedFolder].list)

\* C8: after the reset of a folder has completed, the folder's collection is
\* empty, whether the folder is the selected one or not.
C8_ResetClears ==
  last.type = "reset" => queryData[last.root].list = <<>>

C27_OneHandlerPerType ==
  /\ \A i \in 1..Len(Types) :
       Cardinality({hd \in handlers : hd.type = Types[i]}) <= 1
  /\ last.type # "none" => Targets(last) \subseteq {selectedFolder}

\* The paths of the records an upsert event added to the collection of folder
\* k after the get_files call in flight was answered: the backend stores them,
\* the answer does not have them
StreamedSince(k) ==
  (Paths(queryData[k].list) \cap Paths(db[k])) \ Paths(fetch[k].resp)

\* C28: when the get_files call of the selected folder returns, the records
\* that upsert events added to the folder's collection while the call was in
\* flight stay in the collection.
C28_FetchKeepsStreamedRecords ==
  [][(/\ selectedFolder # NULL
      /\ fetch[selectedFolder].st = "served"
      /\ fetch'[selectedFolder] = Idle
      /\ last'.type = "none")
       => StreamedSince(selectedFolder)
            \subseteq Paths(queryData'[selectedFolder].list)]_vars

\* The parent directory of a normalized path: the path up to its last "/"
ParentOf(p) == substring0(p, lastIndexOf(p, "/"))

\* The file's normalized parent directory is the normalized folder path
ExactParent == ParentOf(NormalizedPath(filePath)) = NormalizedPath(folderPath)

\* C10: each check that scopes a file to a folder accepts the file iff the
\* file's normalized parent directory equals the normalized folder path, for
\* paths written with either separator.
C10_ScopeIsExactParent ==
  /\ "exact" \in scoped.done => (scoped.exact <=> ExactParent)
  /\ "listener" \in scoped.done => (scoped.listener <=> ExactParent)

\* The upsert events: single records and batches
Upsertions == {"file-indexed", "files-indexed-batch"}

\* C11: when the first event of the stream is a RecordUpsert or a
\* RecordBatchUpsert that is applied to a folder's collection (no Started has
\* been applied before it), the folder is syncing afterwards: the indicator
\* is on.
C11_UpsertBeforeStartedIsSyncing ==
  [][(/\ last = NoEvent
      /\ last'.type \in Upsertions
      /\ queryData' # queryData) => isIndexing']_vars

\* The steps that end a folder's synchronisation: its completion events and
\* the reset of a folder
Ending == {"indexing-completed", "indexing-completed-summary", "reset"}

\* C12: the indicator of a synchronisation under way is turned off only by a
\* step that applies a completion event or resets a folder: no other
\* operation, and no error path, turns it off.
C12_SyncingEndsOnlyByCompletionOrReset ==
  [][(isIndexing /\ ~isIndexing') => last'.type \in Ending]_vars

-----------------------------------------------------------------------------
(* Comparing strings.  A comparison is modelled on the characters the      *)
(* names and paths below are written with.                                 *)

Digits == <<"0", "1", "2", "3", "4", "5", "6", "7", "8", "9">>

\* The punctuation of the paths, in the order of the collation
Punctuation == <<":", "?", "/", "\\">>

\* The characters in the order of their UTF-16 code units
CodeUnits == <<"/">> \o Digits \o <<":", "?">> \o Upper \o <<"\\">> \o Lower

IndexIn(s, c) == CHOOSE i \in 1..Len(s) : s[i] = c
Range(s) == {s[i] : i \in 1..Len(s)}

IsDigit(c) == c \in Range(Digits)

\* a < b ? -1 : a > b ? 1 : 0
Sign(n) == IF n < 0 THEN -1 ELSE IF n > 0 THEN 1 ELSE 0

\* The comparison of Array.prototype.sort without a comparator: by code units,
\* a proper prefix first
RECURSIVE CodeUnitCompare(_, _)
CodeUnitCompare(a, b) ==
  IF a = <<>> /\ b = <<>> THEN 0
  ELSE IF a = <<>> THEN -1
  ELSE IF b = <<>> THEN 1
  ELSE IF Head(a) # Head(b)
       THEN Sign(IndexIn(CodeUnits, Head(a)) - IndexIn(CodeUnits, Head(b)))
       ELSE CodeUnitCompare(Tail(a), Tail(b))

\* The primary weight of a character in the collation of localeCompare:
\* punctuation, then digits, then letters without regard to case
Primary(c) ==
  IF c \in Range(Punctuation) THEN IndexIn(Punctuation, c)
  ELSE IF IsDigit(c) THEN 10 + IndexIn(Digits, c)
  ELSE 20 + IndexIn(Lower, LowerChar(c))

RECURSIVE PrimaryCompare(_, _)
PrimaryCompare(a, b) ==
  IF a = <<>> /\ b = <<>> THEN 0
  ELSE IF a = <<>> THEN -1
  ELSE IF b = <<>> THEN 1
  ELSE IF Primary(Head(a)) # Primary(Head(b))
       THEN Sign(Primary(Head(a)) - Primary(Head(b)))
       ELSE PrimaryCompare(Tail(a), Tail(b))

\* Strings of equal primary weights differ in case: at the first difference
\* the lower-case letter comes first
RECURSIVE CaseCompare(_, _)
CaseCompare(a, b) ==
  IF a = <<>> THEN 0
  ELSE IF Head(a) = Head(b) THEN CaseCompare(Tail(a), Tail(b))
  ELSE IF Head(a) \in Range(Lower) THEN -1 ELSE 1

\* String.prototype.localeCompare
localeCompare(a, b) ==
  IF PrimaryCompare(a, b) # 0 THEN PrimaryCompare(a, b) ELSE CaseCompare(a, b)

\* parseInt(s, 10) of a run of digits
RECURSIVE parseInt(_)
parseInt(s) ==
  IF s = <<>> THEN 0
  ELSE 10 * parseInt(SubSeq(s, 1, Len(s) - 1)) + (IndexIn(Digits, s[Len(s)]) - 1)

\* The matches of /(\d+)|(\D+)/g: the maximal runs of digits and of other
\* characters, in order
RECURSIVE Runs(_)
Runs(s) ==
  IF s = <<>> THEN <<>>
  ELSE LET same(i) == IsDigit(s[i]) = IsDigit(s[1])
           n == CHOOSE k \in 1..Len(s) :
                  /\ \A i \in 1..k : same(i)
                  /\ k < Len(s) => ~same(k + 1)
       IN <<SubSeq(s, 1, n)>> \o Runs(SubSeq(s, n + 1, Len(s)))

\* A run of digits
IsNum(run) == run # <<>> /\ IsDigit(run[1])

Max(a, b) == IF a >= b THEN a ELSE b

\* lib/utils.ts naturalCompare: run by run; a name that runs out first comes
\* first; two digit runs by value; otherwise localeCompare of the runs
RECURSIVE NaturalCompareFrom(_, _, _)
NaturalCompareFrom(ax, bx, i) ==
  IF i > Max(Len(ax), Len(bx)) THEN 0
  ELSE IF i > Len(ax) THEN -1
  ELSE IF i > Len(bx) THEN 1
  ELSE IF IsNum(ax[i]) /\ IsNum(bx[i])
       THEN IF parseInt(ax[i]) - parseInt(bx[i]) # 0
            THEN parseInt(ax[i]) - parseInt(bx[i])
            ELSE NaturalCompareFrom(ax, bx, i + 1)
       ELSE IF ax[i] # bx[i]
            THEN localeCompare(ax[i], bx[i])
            ELSE NaturalCompareFrom(ax, bx, i + 1)

\* A variant of naturalCompare that compares the names character by character
naturalCompareByCharacters(a, b) == localeCompare(a, b)

naturalCompare(a, b) == NaturalCompareFrom(Runs(a), Runs(b), 1)

\* utils/sorting.ts naturalSort: a missing chunk is ''; two digit chunks by
\* value; otherwise localeCompare of the lower-cased chunks
RECURSIVE NaturalSortFrom(_, _, _)
NaturalSortFrom(aChunks, bChunks, i) ==
  IF i > Max(Len(aChunks), Len(bChunks)) THEN 0
  ELSE LET aChunk == IF i <= Len(aChunks) THEN aChunks[i] ELSE <<>>
           bChunk == IF i <= Len(bChunks) THEN bChunks[i] ELSE <<>>
       IN IF IsNum(aChunk) /\ IsNum(bChunk)
          THEN IF parseInt(aChunk) # parseInt(bChunk)
               THEN parseInt(aChunk) - parseInt(bChunk)
               ELSE NaturalSortFrom(aChunks, bChunks, i + 1)
          ELSE IF localeCompare(toLowerCase(aChunk), toLowerCase(bChunk)) # 0
               THEN localeCompare(toLowerCase(aChunk), toLowerCase(bChunk))
               ELSE NaturalSortFrom(aChunks, bChunks, i + 1)

naturalSort(a, b) == NaturalSortFrom(Runs(a), Runs(b), 1)

\* utils/sorting.ts lexicographicalSort
lexicographicalSort(a, b) == localeCompare(toLowerCase(a), toLowerCase(b))

\* Array.prototype.sort with a comparator: a stable sort, the element at i
\* follows those that compare below it and those before it that compare equal
Sorted(s, cmp(_, _)) ==
  LET before(j, i) == LET c == cmp(s[j], s[i]) IN c < 0 \/ (c = 0 /\ j < i)
      rank == [i \in 1..Len(s) |->
                 Cardinality({j \in 1..Len(s) : before(j, i)}) + 1]
  IN [r \in 1..Len(s) |-> s[CHOOSE i \in 1..Len(s) : rank[i] = r]]

\* lib/utils.ts naturalSortFiles: a sorted copy
naturalSortFiles(fs) ==
  LET byName(a, b) == naturalCompare(a.name, b.name) IN Sorted(fs, byName)

\* Array.prototype.reverse
Reverse(s) == [i \in 1..Len(s) |-> s[Len(s) + 1 - i]]

-----------------------------------------------------------------------------
(* SpecViews: the arrays behind the collections.  An array is a reference   *)
(* into heap; the gallery store holds the array of the scanned folder, the  *)
(* query cache holds the array of the selected folder's files, and Gallery  *)
(* computes filteredAndSortedImages from the store's array.                 *)

\* The number of arrays in a session
MaxArrays == 4

\* An ImageMetadata: its name, its size, and the time of its modified date
Image(n, s, m) == [name |-> n, size |-> s, modified |-> m]
ImageA == Image(<<"a">>, 2, 1)
ImageB == Image(<<"b">>, 1, 2)

\* What scan_folder answers
Scans == {<<ImageB, ImageA>>, <<ImageA, ImageB>>, <<ImageA>>}

\* The search queries: none, and one that matches ImageA
Queries == {<<>>, <<"A">>}

\* String.prototype.includes
includes(s, q) ==
  \E i \in 1..(Len(s) - Len(q) + 1) : SubSeq(s, i, i + Len(q) - 1) = q

\* images.filter(image => image.name.toLowerCase().includes(query)): the
\* camera fields are absent
RECURSIVE FilterImages(_, _)
FilterImages(imgs, query) ==
  IF imgs = <<>> THEN <<>>
  ELSE IF includes(toLowerCase(Head(imgs).name), query)
       THEN <<Head(imgs)>> \o FilterImages(Tail(imgs), query)
       ELSE FilterImages(Tail(imgs), query)

\* The comparator of filtered.sort
Comparison(sortBy, sortOrder, sortType, a, b) ==
  LET comparison ==
        CASE sortBy = "name" ->
               IF sortType = "natural" THEN naturalSort(a.name, b.name)
               ELSE lexicographicalSort(a.name, b.name)
          [] sortBy = "date" -> a.modified - b.modified
          [] sortBy = "size" -> a.size - b.size
  IN IF sortOrder = "desc" THEN 0 - comparison ELSE comparison

CoreFrame ==
  UNCHANGED <<appVars, backendVars, histVars, filePath, folderPath, scoped>>

ViewsFrame ==
  /\ CoreFrame
  /\ UNCHANGED <<treeVars, openVars, sortVars, gridVars, viewerVars, scanVars>>

ViewsInit ==
  /\ Mounted /\ BackendInit /\ HistInit /\ ScopeIdle
  /\ LibIdle

\* A fresh array with the given elements
Allocated(elements) == Len(heap) < MaxArrays /\ heap' = Append(heap, elements)

\* scanFolder: the store takes the array scan_folder answers
ScanFolder ==
  \E scanned \in Scans :
    /\ Allocated(scanned)
    /\ images' = Len(heap) + 1
    /\ UNCHANGED <<allFiles, view>>
    /\ ViewsFrame

\* Gallery renders: filteredAndSortedImages.  With a search query, filter
\* makes the array that is sorted; without one, filtered is the store's array
\* and filtered.sort sorts that array in place.
GalleryView ==
  \E searchQuery \in Queries, sortBy \in {"name", "date", "size"},
     sortOrder \in {"asc", "desc"}, sortType \in {"natural", "lexicographical"} :
    LET cmp(a, b) == Comparison(sortBy, sortOrder, sortType, a, b)
    IN /\ IF searchQuery # <<>>
          THEN /\ Allocated(Sorted(FilterImages(heap[images],
                                                toLowerCase(searchQuery)), cmp))
               /\ view' = Len(heap) + 1
          ELSE /\ heap' = [heap EXCEPT ![images] = Sorted(@, cmp)]
               /\ view' = images
       /\ UNCHANGED <<images, allFiles>>
       /\ ViewsFrame

\* The query data as the updaters take it
OldData == IF allFiles = 0 THEN UNDEFINED ELSE Data(heap[allFiles])

\* 'file-indexed' with folder a selected: the updater returns oldData itself
\* when the path is present, and a fresh array otherwise
ViewFileIndexed ==
  \E file \in {f1, f1n, f2} :
    /\ InFolder(file, FolderA)
    /\ IF FileIndexedUpdater(OldData, file) = OldData
       THEN UNCHANGED <<heap, allFiles>>
       ELSE /\ Allocated(FileIndexedUpdater(OldData, file).list)
            /\ allFiles' = Len(heap) + 1
    /\ UNCHANGED <<images, view>>
    /\ ViewsFrame

\* 'files-indexed-batch' with folder a selected: Array.from(map.values())
ViewBatch ==
  \E batch \in {<<f1, f2>>, <<f1n, h>>} :
    /\ Filter(batch, FolderA) # <<>>
    /\ Allocated(BatchUpdater(OldData, Filter(batch, FolderA)).list)
    /\ allFiles' = Len(heap) + 1
    /\ UNCHANGED <<images, view>>
    /\ ViewsFrame

\* 'file-updated' with folder a selected: [updated], [...oldData, updated] or
\* the changed copy of oldData
ViewFileUpdated ==
  \E updated \in {f1n, f2} :
    /\ InFolder(updated, FolderA)
    /\ Allocated(FileUpdatedUpdater(OldData, updated).list)
    /\ allFiles' = Len(heap) + 1
    /\ UNCHANGED <<images, view>>
    /\ ViewsFrame

ViewsNext ==
  \/ ScanFolder
  \/ GalleryView
  \/ ViewFileIndexed
  \/ ViewBatch
  \/ ViewFileUpdated

SpecViews == ViewsInit /\ [][ViewsNext]_vars

\* C13: an array that holds a collection is never changed afterwards: every
\* step leaves the contents and the order of every array allocated before it
\* as they were.
C13_ReturnedSequencesNeverChange ==
  [][\A r \in 1..Len(heap) : heap'[r] = heap[r]]_vars

-----------------------------------------------------------------------------
(* SpecTree: FolderExplorer builds the tree of the indexed folders.  The    *)
(* tree is kept as the sequence of its nodes in depth-first order, children *)
(* in their order, each node with its depth.                                *)

\* The number of indexed folders
MaxFolders == 3

LibJan ==
  <<"C", ":", "/", "L", "i", "b", "/", "2", "0", "2", "4", "/", "J", "a", "n">>
LibFeb ==
  <<"C", ":", "/", "L", "i", "b", "/", "2", "0", "2", "4", "/", "F", "e", "b">>
LibMar ==
  <<"c", ":", "/", "l", "i", "b", "/", "2", "0", "2", "4", "/", "M", "a", "r">>
Lib ==
  <<"C", ":", "/", "L", "i", "b">>
DriveC ==
  <<"C", ":", "\\">>
Pics ==
  <<"D", ":", "\\", "p", "i", "c", "s">>
Pics1 ==
  <<"\\", "\\", "?", "\\", "D", ":", "\\", "p", "i", "c", "s", "\\", "1">>

\* The indexed folders: two months of a library and a third written in lower
\* case, the library itself, the root of drive C, and on drive D a folder and
\* a sub-folder with the extended-length prefix
FolderPool == {LibJan, LibFeb, LibMar, Lib, DriveC, Pics, Pics1}

\* A variant of Distinct that keeps the repetitions
DistinctNot(s) == s

\* [...new Set(paths)]: the first occurrence of each path, in order
RECURSIVE Distinct(_)
Distinct(s) ==
  IF s = <<>> THEN <<>>
  ELSE LET r == Distinct(SubSeq(s, 1, Len(s) - 1))
       IN IF s[Len(s)] \in Range(r) THEN r ELSE Append(r, s[Len(s)])

\* The prefix \\?\ of an extended-length path
ExtendedPrefix == <<"\\", "\\", "?", "\\">>

\* { original: p, normalized: raw.replace(/\\/g, "/") }
CleanPath(p) ==
  LET raw == IF startsWith(p, ExtendedPrefix) THEN SubSeq(p, 5, Len(p)) ELSE p
  IN [original |-> p, normalized |-> replaceBackslashes(raw)]

\* A variant of getCommonBase that finds no common base
getCommonBaseNone(paths) == <<>>

\* getCommonBase: the characters the first and the last of the sorted paths
\* share, cut back to the last slash
getCommonBase(paths) ==
  IF Len(paths) = 0 THEN <<>>
  ELSE IF Len(paths) = 1 THEN <<>>
  ELSE LET normPaths == [k \in 1..Len(paths) |-> replaceBackslashes(paths[k])]
           sorted == Sorted(normPaths, CodeUnitCompare)
           first == sorted[1]
           last_ == sorted[Len(sorted)]
           same(k) == \A j \in 1..k : j <= Len(last_) /\ first[j] = last_[j]
           i == CHOOSE k \in 0..Len(first) :
                  same(k) /\ (k < Len(first) => ~same(k + 1))
           prefix == SubSeq(first, 1, i)
       IN IF lastIndexOf(prefix, "/") # -1
          THEN substring0(prefix, lastIndexOf(prefix, "/"))
          ELSE prefix

\* String.prototype.split("/")
RECURSIVE split(_)
split(s) ==
  IF \E i \in 1..Len(s) : s[i] = "/"
  THEN LET i == CHOOSE k \in 1..Len(s) :
                  s[k] = "/" /\ \A j \in 1..(k - 1) : s[j] # "/"
       IN <<SubSeq(s, 1, i - 1)>> \o split(SubSeq(s, i + 1, Len(s)))
  ELSE <<s>>

\* A variant of NodeKey that keeps the case of the path
NodeKeyAsWritten(currentPath) == currentPath

\* const nodeKey = currentPath.toLowerCase()
NodeKey(currentPath) == toLowerCase(currentPath)

\* nodeMap.get(nodeKey): the place of the node among those created, or 0
Find(nodes, nodeKey) ==
  IF \E i \in 1..Len(nodes) : nodes[i].key = nodeKey
  THEN CHOOSE i \in 1..Len(nodes) : nodes[i].key = nodeKey
  ELSE 0

\* segments.forEach: the node of each cumulative path is looked up by its
\* lower-case form and created if absent, virtual unless the segment is the
\* last; found at the last segment, it becomes real and takes the path
RECURSIVE WalkSegments(_, _, _, _, _, _)
WalkSegments(nodes, item, segments, idx, currentPath, parentNode) ==
  IF idx > Len(segments) THEN nodes
  ELSE LET segment == segments[idx]
           path == IF currentPath # <<>>
                   THEN currentPath \o <<"/">> \o segment ELSE segment
           nodeKey == NodeKey(path)
           isLastSegment == idx = Len(segments)
           found == Find(nodes, nodeKey)
           node == [path |-> IF isLastSegment THEN item.original ELSE path,
                    name |-> segment,
                    isVirtual |-> ~isLastSegment,
                    parent |-> parentNode,
                    key |-> nodeKey]
           after == IF found = 0 THEN Append(nodes, node)
                    ELSE IF isLastSegment
                         THEN [nodes EXCEPT ![found].isVirtual = FALSE,
                                            ![found].path = item.original]
                         ELSE nodes
       IN WalkSegments(after, item, segments, idx + 1, path,
                       IF found = 0 THEN Len(nodes) + 1 ELSE found)

\* cleanPaths.forEach: a path with nothing after the common base is skipped
RECURSIVE WalkPaths(_, _, _)
WalkPaths(nodes, cleanPaths, commonBase) ==
  IF cleanPaths = <<>> THEN nodes
  ELSE LET item == Head(cleanPaths)
           commonBaseLen == IF Len(commonBase) > 0 THEN Len(commonBase) + 1 ELSE 0
           relative == SubSeq(item.normalized, commonBaseLen + 1,
                              Len(item.normalized))
       IN WalkPaths(IF relative = <<>> THEN nodes
                    ELSE WalkSegments(nodes, item, split(relative), 1,
                                      commonBase, 0),
                    Tail(cleanPaths), commonBase)

\* The children of a node (of no node: the roots) as sortNodes leaves them:
\* in the order of their creation, sorted by naturalCompare of the names
Children(nodes, parentNode) ==
  LET isChild(i) == nodes[i].parent = parentNode
      byName(i, j) == naturalCompare(nodes[i].name, nodes[j].name)
  IN Sorted(SelectSeq([i \in 1..Len(nodes) |-> i], isChild), byName)

\* The nodes below the listed ones, depth first
RECURSIVE Subtrees(_, _, _)
Subtrees(nodes, list, depth) ==
  IF list = <<>> THEN <<>>
  ELSE <<[path |-> nodes[Head(list)].path,
          name |-> nodes[Head(list)].name,
          isVirtual |-> nodes[Head(list)].isVirtual,
          depth |-> depth]>>
       \o Subtrees(nodes, Children(nodes, Head(list)), depth + 1)
       \o Subtrees(nodes, Tail(list), depth)

buildAncestryTree(paths) ==
  IF Len(paths) = 0 THEN <<>>
  ELSE LET distinct == Distinct(paths)
           cleanPaths == [k \in 1..Len(distinct) |-> CleanPath(distinct[k])]
           normalizedStrings ==
             [k \in 1..Len(cleanPaths) |-> cleanPaths[k].normalized]
           commonBase == getCommonBase(normalizedStrings)
           byLength(a, b) == Len(a.normalized) - Len(b.normalized)
           nodes == WalkPaths(<<>>, Sorted(cleanPaths, byLength), commonBase)
       IN Subtrees(nodes, Children(nodes, 0), 0)

TreeFrame ==
  /\ CoreFrame
  /\ UNCHANGED <<viewVars, openVars, sortVars, gridVars, viewerVars, scanVars>>

TreeInit ==
  /\ Mounted /\ BackendInit /\ HistInit /\ ScopeIdle
  /\ LibIdle

\* The render after the indexed folders changed: useMemo builds the tree anew
Rendered == treeRoots' = buildAncestryTree(folders')

\* A folder is reported as indexed
FolderAdded ==
  \E p \in FolderPool :
    /\ Len(folders) < MaxFolders
    /\ folders' = Append(folders, p)
    /\ Rendered
    /\ TreeFrame

\* A folder is no longer reported
FolderRemoved ==
  \E i \in 1..Len(folders) :
    /\ folders' = SubSeq(folders, 1, i - 1) \o SubSeq(folders, i + 1, Len(folders))
    /\ Rendered
    /\ TreeFrame

\* The folders are reported in another order
FoldersReordered ==
  \E i \in 1..(Len(folders) - 1) :
    /\ folders[i] # folders[i + 1]
    /\ folders' = [folders EXCEPT ![i] = folders[i + 1], ![i + 1] = folders[i]]
    /\ Rendered
    /\ TreeFrame

TreeNext ==
  \/ FolderAdded
  \/ FolderRemoved
  \/ FoldersReordered

SpecTree == TreeInit /\ [][TreeNext]_vars

\* The paths of the nodes of the tree that are not virtual
RealPaths == {treeRoots[i].path : i \in {k \in 1..Len(treeRoots) : ~treeRoots[k].isVirtual}}

\* C14: a node of the tree is real exactly when its path is one of the indexed
\* folders, and every indexed folder is the path of a real node; so no node
\* inferred as an ancestor is real.
C14_RealNodesAreTheIndexedFolders ==
  /\ \A i \in 1..Len(treeRoots) :
       ~treeRoots[i].isVirtual <=> treeRoots[i].path \in Range(folders)
  /\ \A p \in Range(folders) : p \in RealPaths

\* The names from a root of the tree down to its i-th node
RECURSIVE ChainOf(_, _)
ChainOf(tree, i) ==
  IF tree[i].depth = 0 THEN <<tree[i].name>>
  ELSE LET parent == CHOOSE j \in 1..(i - 1) :
                       /\ tree[j].depth = tree[i].depth - 1
                       /\ \A k \in (j + 1)..(i - 1) : tree[k].depth >= tree[i].depth
       IN Append(ChainOf(tree, parent), tree[i].name)

\* The names joined by slashes
RECURSIVE Joined(_)
Joined(names) ==
  IF Len(names) = 1 THEN names[1]
  ELSE Joined(SubSeq(names, 1, Len(names) - 1)) \o <<"/">> \o names[Len(names)]

\* The common base of the indexed folders
CommonBase ==
  getCommonBase([k \in 1..Len(Distinct(folders)) |->
                   CleanPath(Distinct(folders)[k]).normalized])

\* The directory the i-th node of the tree stands for: the common base, then
\* the names down to the node
DirectoryOf(base, i) ==
  IF base = <<>> THEN Joined(ChainOf(treeRoots, i))
  ELSE base \o <<"/">> \o Joined(ChainOf(treeRoots, i))

\* The directories from below the common base down to folder p: the prefixes
\* of its path that end with a name, at a slash or at the end of the path
DirectoriesTo(base, p) ==
  LET n == CleanPath(p).normalized
  IN {SubSeq(n, 1, k) : k \in {j \in (Len(base) + 1)..Len(n) :
                                 /\ n[j] # "/"
                                 /\ j = Len(n) \/ n[j + 1] = "/"}}

\* C15: each directory from below the common base down to an indexed folder
\* has exactly one node in the tree, whatever the case the folders' paths
\* write it in: the folders below it share that node.
C15_OneNodePerDirectory ==
  LET base == CommonBase
      stands == [i \in 1..Len(treeRoots) |-> toLowerCase(DirectoryOf(base, i))]
  IN \A p \in Range(folders) : \A d \in DirectoriesTo(base, p) :
       Cardinality({i \in 1..Len(treeRoots) : stands[i] = toLowerCase(d)}) = 1

\* Two folders whose paths write their common ancestors in different case
\* are in the tree, below the same three ancestors
C15_Witness ==
  /\ Range(folders) = {LibJan, LibMar}
  /\ Len(treeRoots) = 5

\* C16: the tree is a function of the set of the indexed folders: a step that
\* leaves the set as it was, reordering the list or repeating a folder in it,
\* leaves the tree as it was, the order of the children included.
C16_TreeDependsOnTheSetOnly ==
  [][Range(folders') = Range(folders) => treeRoots' = treeRoots]_vars

\* A real node at the top of the tree
RealRoot(path, name) ==
  [path |-> path, name |-> name, isVirtual |-> FALSE, depth |-> 0]

\* C17: for the folders C:/Lib/2024/Jan and C:/Lib/2024/Feb the common
\* ancestor C:/Lib/2024 is left out, and the tree is the two real nodes Feb
\* and Jan without children, in natural order.
C17_JanFebTree ==
  Range(folders) = {LibJan, LibFeb} =>
    treeRoots = <<RealRoot(LibFeb, <<"F", "e", "b">>),
                  RealRoot(LibJan, <<"J", "a", "n">>)>>

\* The tree of the list [C:/Lib/2024/Jan, C:/Lib/2024/Feb] has been built
C17_Witness ==
  /\ folders = <<LibJan, LibFeb>>
  /\ Len(treeRoots) = 2

-----------------------------------------------------------------------------
(* SpecSort: the orders by name.  App lists the files of the folder         *)
(* (naturalSortFiles), Gallery lists the images of the store (naturalSort), *)
(* and the folder tree orders the children of a node (sortNodes).           *)

\* The number of names put in order
MaxNamed == 3

img1 == <<"i", "m", "g", "1">>
img2 == <<"i", "m", "g", "2">>
img10 == <<"i", "m", "g", "1", "0">>
Folder2 == <<"F", "o", "l", "d", "e", "r", "2">>
Folder10 == <<"F", "o", "l", "d", "e", "r", "1", "0">>
folder10 == <<"f", "o", "l", "d", "e", "r", "1", "0">>

\* The files, images or folders to put in order: a name, a size and the time
\* of the modified date
NamedPool ==
  {Image(img1, 3, 1), Image(img2, 1, 3), Image(img10, 2, 2),
   Image(Folder2, 5, 4), Image(Folder10, 4, 5), Image(folder10, 6, 6)}

RECURSIVE ListsOf(_, _)
ListsOf(pool, n) ==
  IF n = 0 THEN {<<>>}
  ELSE ListsOf(pool, n - 1)
       \cup {Append(l, x) : l \in {m \in ListsOf(pool, n - 1) : Len(m) = n - 1},
                            x \in pool}

Shown(by, key, dir, type) == [by |-> by, key |-> key, dir |-> dir, type |-> type]

SortInit ==
  /\ Mounted /\ BackendInit /\ HistInit /\ ScopeIdle
  /\ ViewsIdle /\ TreeIdle /\ OpenIdle /\ GridIdle /\ ViewerIdle /\ ScanIdle
  /\ named \in ListsOf(NamedPool, MaxNamed)
  /\ listing = <<>>
  /\ shown = Shown("none", "name", "asc", "natural")

\* The names are put in order once
SortFrame ==
  /\ shown.by = "none"
  /\ CoreFrame
  /\ UNCHANGED <<viewVars, treeVars, openVars, gridVars, viewerVars, scanVars,
                 named>>

\* App: the files memo, the filtered files sorted by sortKey and sortDir
SortFiles ==
  \E sortKey \in {"name", "date", "size"}, sortDir \in {"asc", "desc"} :
    LET byDate(a, b) == a.modified - b.modified
        bySize(a, b) == a.size - b.size
        base == IF sortKey = "name" THEN naturalSortFiles(named)
                ELSE IF sortKey = "date" THEN Sorted(named, byDate)
                ELSE Sorted(named, bySize)
    IN /\ SortFrame
       /\ listing' = IF sortDir = "desc" THEN Reverse(base) ELSE base
       /\ shown' = Shown("files", sortKey, sortDir, "natural")

\* Gallery: filtered.sort with the comparator of sortBy, sortOrder and sortType
SortImages ==
  \E sortBy \in {"name", "date", "size"}, sortOrder \in {"asc", "desc"},
     sortType \in {"natural", "lexicographical"} :
    LET cmp(a, b) == Comparison(sortBy, sortOrder, sortType, a, b)
    IN /\ SortFrame
       /\ listing' = Sorted(named, cmp)
       /\ shown' = Shown("images", sortBy, sortOrder, sortType)

\* buildAncestryTree: sortNodes orders the children of a node
SortNodes ==
  LET byName(a, b) == naturalCompare(a.name, b.name)
  IN /\ SortFrame
     /\ listing' = Sorted(named, byName)
     /\ shown' = Shown("nodes", "name", "asc", "natural")

SortNext ==
  \/ SortFiles
  \/ SortImages
  \/ SortNodes

SpecSort == SortInit /\ [][SortNext]_vars

\* The names are listed by name, in natural order, ascending
ListedNaturally ==
  shown.by # "none" /\ shown.key = "name" /\ shown.dir = "asc"
                    /\ shown.type = "natural"

\* Name a stands before name b wherever the listing has both
Before(a, b) ==
  \A i, j \in 1..Len(listing) :
    listing[i].name = a /\ listing[j].name = b => i < j

\* C18: the listings by name of the files, of the images and of the children
\* of a tree node are in natural order, digit runs compared by value: img1
\* stands before img2 and img2 before img10, Folder2 before Folder10, and
\* the names img2, img10, img1 are listed img1, img2, img10.
C18_NaturalOrder ==
  ListedNaturally =>
    /\ Before(img1, img2) /\ Before(img2, img10) /\ Before(img1, img10)
    /\ Before(Folder2, Folder10)
    /\ [i \in 1..Len(named) |-> named[i].name] = <<img2, img10, img1>>
         => [i \in 1..Len(listing) |-> listing[i].name] = <<img1, img2, img10>>

\* The files img2, img10, img1 have been listed by name
C18_Witness ==
  /\ ListedNaturally /\ shown.by = "files"
  /\ [i \in 1..Len(named) |-> named[i].name] = <<img2, img10, img1>>
  /\ Len(listing) = 3

-----------------------------------------------------------------------------
(* SpecGrid: FileGrid lays the files out in square cells and hands the      *)
(* cells to a windowed Grid, which renders the cells in view and the        *)
(* overscan around them.                                                    *)

gap == 12
padding == 12
overscanRowCount == 4
overscanColumnCount == 2

Min(a, b) == IF a <= b THEN a ELSE b

\* Math.ceil(a / b) for a >= 0 and b > 0
CeilDiv(a, b) == (a + b - 1) \div b

\* const viewportWidth = Math.max(0, containerSize.width - padding * 2)
viewportWidth(size) == Max(0, size.width - padding * 2)

\* cols: one column without a width, imagesPerRow between 1 and 12 when set,
\* otherwise as many slots of the thumbnail size and the gap as fit
cols(size, baseSize, perRow) ==
  IF viewportWidth(size) <= 0 THEN 1
  ELSE IF perRow # 0 /\ perRow > 0 THEN Max(1, Min(12, perRow))
  ELSE Max(1, (viewportWidth(size) + gap) \div (baseSize + gap))

\* A variant of contentSize that takes a gap off for every column
contentSizeLessGaps(size, baseSize, perRow) ==
  IF viewportWidth(size) <= 0 THEN baseSize
  ELSE IF cols(size, baseSize, perRow) <= 0 THEN baseSize
  ELSE Max(80, Min(640,
         (viewportWidth(size) - gap * cols(size, baseSize, perRow))
           \div cols(size, baseSize, perRow)))

\* contentSize: the width left by the gaps between the columns, shared by
\* the columns, between 80 and 640
contentSize(size, baseSize, perRow) ==
  IF viewportWidth(size) <= 0 THEN baseSize
  ELSE IF cols(size, baseSize, perRow) <= 0 THEN baseSize
  ELSE Max(80, Min(640,
         (viewportWidth(size) - gap * (cols(size, baseSize, perRow) - 1))
           \div cols(size, baseSize, perRow)))

\* const rowCount = Math.ceil(files.length / cols)
rowCount(size, baseSize, perRow, count) ==
  CeilDiv(count, cols(size, baseSize, perRow))

\* The items of a windowed axis that are rendered at rest: those in view from
\* the scroll offset, and the overscan on either side
RangeToRender(itemCount, itemSize, extent, offset, overscan) ==
  LET start == Max(0, Min(itemCount - 1, offset \div itemSize))
      visible == CeilDiv(extent + offset - start * itemSize, itemSize)
      stop == Max(0, Min(itemCount - 1, start + visible - 1))
  IN Max(0, start - Max(1, overscan))
       .. Max(0, Min(itemCount - 1, stop + Max(1, overscan)))

\* FileGrid renders the Grid when it is not loading, has files and has
\* measured its container
GridShown(isLoading, size, count) ==
  ~isLoading /\ count # 0 /\ size.width > 0 /\ size.height > 0

\* The cells <<rowIndex, columnIndex>> the Grid renders
GridCells(isLoading, size, baseSize, perRow, count, offset) ==
  IF ~GridShown(isLoading, size, count) THEN {}
  ELSE LET side == contentSize(size, baseSize, perRow) + gap
           columnCount == cols(size, baseSize, perRow)
           rows == rowCount(size, baseSize, perRow, count)
       IN IF columnCount = 0 \/ rows = 0 THEN {}
          ELSE RangeToRender(rows, side, Max(120, size.height - padding * 2),
                             offset.top, overscanRowCount)
               \X RangeToRender(columnCount, side,
                                Max(160, size.width - padding * 2),
                                offset.left, overscanColumnCount)

\* A variant of Draws that draws a file in every cell
DrawsAlways(index, count) == TRUE

\* cellRenderer: an index past the files gives an empty cell
Draws(index, count) == ~(index >= count)

\* The indices of the files cellRenderer draws in the cells
Drawn(cellSet, columnCount, count) ==
  {cell[1] * columnCount + cell[2] :
     cell \in {c \in cellSet : Draws(c[1] * columnCount + c[2], count)}}

\* The measured sizes of the container
Sizes ==
  {[width |-> 0, height |-> 0], [width |-> 1024, height |-> 600],
   [width |-> 424, height |-> 600], [width |-> 20, height |-> 300],
   [width |-> 224, height |-> 300]}

ThumbnailSizes == {200, 100, 300, 700}
PerRow == {0, 3, 20}
FileCounts == {0, 1, 5, 13}
ScrollOffsets ==
  {[top |-> 0, left |-> 0], [top |-> 600, left |-> 0],
   [top |-> 5000, left |-> 12]}

GridInit ==
  /\ Mounted /\ BackendInit /\ HistInit /\ ScopeIdle
  /\ LibIdle

GridFrame ==
  /\ CoreFrame
  /\ UNCHANGED <<viewVars, treeVars, openVars, sortVars, viewerVars, scanVars>>

\* The render: the Grid's cells and the files drawn in them
GridRender(isLoading) ==
  /\ cells' = GridCells(isLoading, containerSize', thumbnailSize',
                        imagesPerRow', fileCount', scrollOffset')
  /\ drawn' = Drawn(cells', cols(containerSize', thumbnailSize', imagesPerRow'),
                    fileCount')

\* The container is measured: a Grid of another size is a new Grid, at the
\* top left
Measure ==
  \E size \in Sizes, isLoading \in BOOLEAN :
    /\ size # containerSize
    /\ containerSize' = size
    /\ scrollOffset' = [top |-> 0, left |-> 0]
    /\ UNCHANGED <<thumbnailSize, imagesPerRow, fileCount>>
    /\ GridRender(isLoading)
    /\ GridFrame

\* The files of the folder change
FilesChange ==
  \E count \in FileCounts, isLoading \in BOOLEAN :
    /\ fileCount' = count
    /\ scrollOffset' = IF GridShown(isLoading, containerSize, count)
                       THEN scrollOffset ELSE [top |-> 0, left |-> 0]
    /\ UNCHANGED <<containerSize, thumbnailSize, imagesPerRow>>
    /\ GridRender(isLoading)
    /\ GridFrame

\* The user sets the thumbnail size or the number of images per row
Resize ==
  \E baseSize \in ThumbnailSizes, perRow \in PerRow :
    /\ thumbnailSize' = baseSize
    /\ imagesPerRow' = perRow
    /\ UNCHANGED <<containerSize, fileCount, scrollOffset>>
    /\ GridRender(FALSE)
    /\ GridFrame

\* The user scrolls the Grid
Scroll ==
  \E offset \in ScrollOffsets :
    /\ cells # {}
    /\ scrollOffset' = offset
    /\ UNCHANGED <<containerSize, thumbnailSize, imagesPerRow, fileCount>>
    /\ GridRender(FALSE)
    /\ GridFrame

GridNext ==
  \/ Measure
  \/ FilesChange
  \/ Resize
  \/ Scroll

SpecGrid == GridInit /\ [][GridNext]_vars

\* The distance between two numbers
Distance(a, b) == IF a >= b THEN a - b ELSE b - a

\* C19: with a viewport 1000 wide, the gap of 12 and a thumbnail size of 200
\* the layout has 4 columns, and 4 columns of the cell size and the gap are
\* within one pixel of 1000.
C19_ExactFill ==
  (viewportWidth(containerSize) = 1000 /\ thumbnailSize = 200 /\ imagesPerRow = 0)
    => /\ cols(containerSize, thumbnailSize, imagesPerRow) = 4
       /\ Distance(4 * (contentSize(containerSize, thumbnailSize, imagesPerRow)
                          + gap), 1000) <= 1

\* C20: every file drawn has an index from 0 up to the number of files; the
\* rows are the number of files over the columns, rounded up, and a cell of
\* the Grid whose index is outside is left empty.
C20_DrawnIndicesInRange ==
  /\ \A i \in drawn : 0 <= i /\ i < fileCount
  /\ \A cell \in cells :
       /\ cell[1] < CeilDiv(fileCount, cols(containerSize, thumbnailSize, imagesPerRow))
       /\ cell[2] < cols(containerSize, thumbnailSize, imagesPerRow)

\* The Grid has rendered a last row that is not full: files are drawn, and a
\* cell past the last file is left empty
C20_Witness ==
  /\ drawn # {}
  /\ \E cell \in cells :
       cell[1] * cols(containerSize, thumbnailSize, imagesPerRow) + cell[2]
         >= fileCount

\* C21: while the viewport width is 0 or less, the layout has one column and
\* the Grid renders no cell.
C21_NoWidthNoCells ==
  viewportWidth(containerSize) <= 0 =>
    /\ cols(containerSize, thumbnailSize, imagesPerRow) = 1
    /\ cells = {}

NormalizedFolders == {CleanPath(p).normalized : p \in Range(folders)}

\* Path n lies below directory d: d, a slash, and at least a name
Below(n, d) == startsWith(n, d \o <<"/">>) /\ Len(n) > Len(d) + 1

\* The directories above path n: its prefixes that end before a slash
Above(n) == {SubSeq(n, 1, k - 1) : k \in {j \in 2..Len(n) : n[j] = "/"}}

\* C23: for two or more distinct folders the common base is their longest
\* common directory: every folder lies below it, after a separator, and no
\* longer directory has every folder below it.
C23_CommonBaseIsLongestCommonDirectory ==
  Cardinality(Range(folders)) >= 2 =>
    LET base == CommonBase
    IN /\ base # <<>> => \A n \in NormalizedFolders : Below(n, base)
       /\ \A m \in NormalizedFolders : \A d \in Above(m) :
            Len(d) > Len(base) => \E n \in NormalizedFolders : ~Below(n, d)

\* C24: with one distinct folder, however often it is reported, nothing is
\* elided: the tree is the chain of all the segments of its normalized path,
\* from the first segment down to the folder, which alone is real.
C24_SinglePathKeepsItsChain ==
  Cardinality(Range(folders)) = 1 =>
    LET item == CleanPath(folders[1])
        segments == split(item.normalized)
    IN /\ Len(treeRoots) = Len(segments)
       /\ \A i \in 1..Len(treeRoots) :
            /\ treeRoots[i].name = segments[i]
            /\ treeRoots[i].depth = i - 1
            /\ treeRoots[i].isVirtual <=> i < Len(segments)
            /\ treeRoots[i].path =
                 IF i = Len(segments) THEN item.original
                 ELSE Joined(SubSeq(segments, 1, i))

\* One folder, reported twice, under three ancestors
C24_Witness ==
  /\ folders = <<LibJan, LibJan>>
  /\ Len(treeRoots) = 4
  /\ treeRoots[1].name = <<"C", ":">>

\* The records of s whose names are name k but for the case of the letters
SameButCase(s, k) ==
  LET same(x) == toLowerCase(x.name) = k
  IN SelectSeq(s, same)

\* C25: in a listing by name in natural order the case of the letters decides
\* nothing: names that differ only in case compare as equal, so the sort
\* leaves them in the order they had, and Folder2 stands before folder10 as
\* 2 is less than 10.
C25_CaseDecidesNothing ==
  ListedNaturally =>
    /\ \A k \in {toLowerCase(x.name) : x \in Range(named)} :
         SameButCase(listing, k) = SameButCase(named, k)
    /\ Before(Folder2, folder10)

-----------------------------------------------------------------------------
(* SpecOpen: FolderExplorer shows the tree of the indexed folders; a node   *)
(* opens when it is clicked and when the selected folder lies below it.     *)

Lib2024 == <<"C", ":", "/", "L", "i", "b", "/", "2", "0", "2", "4">>
Lib2024x == <<"C", ":", "/", "L", "i", "b", "/", "2", "0", "2", "4", "x">>
PicsJan == <<"D", ":", "\\", "p", "i", "c", "s", "\\", "J", "a", "n">>

\* The indexed folders: a year of the library, a folder whose name extends
\* the year's, a month of the year, and a folder written with backslashes
OpenPool == {Lib2024, Lib2024x, LibJan, PicsJan}

\* FolderTree: folder a is a parent of folder b
isAncestorOf(a, b) ==
  LET normalizedCurrent == toLowerCase(replaceBackslashes(b))
      normalizedParent == toLowerCase(replaceBackslashes(a))
  IN startsWith(normalizedCurrent, normalizedParent \o <<"/">>)

\* FolderTreeItem: the selected folder is below the node
hasSelectedChild(node, selected) ==
  /\ startsWith(toLowerCase(selected), toLowerCase(node.path))
  /\ toLowerCase(selected) # toLowerCase(node.path)

\* The node above node i of the tree, 0 above a root
Parent(i) ==
  IF treeRoots[i].depth = 0 THEN 0
  ELSE CHOOSE j \in 1..(i - 1) :
         /\ treeRoots[j].depth = treeRoots[i].depth - 1
         /\ \A k \in (j + 1)..(i - 1) : treeRoots[k].depth >= treeRoots[i].depth

\* node.children of node i
Kids(i) == {j \in 1..Len(treeRoots) : Parent(j) = i}

\* FolderTreeItem is rendered for the roots and for the children of the open
\* nodes that are rendered
RECURSIVE Mounts(_, _)
Mounts(open, i) ==
  \/ treeRoots[i].depth = 0
  \/ Parent(i) \in open /\ Mounts(open, Parent(i))

\* The nodes that are open and rendered: an item that is not rendered has
\* no state
Kept(open) == {i \in open : Mounts(open, i)}

\* The effect on hasSelectedChild, for the nodes where it runs: a node below
\* which the selected folder is opens, and the effect runs in the children it
\* then renders
RECURSIVE AutoExpand(_, _, _)
AutoExpand(open, runs, selected) ==
  LET opened == {i \in runs : hasSelectedChild(treeRoots[i], selected)} \ open
  IN IF opened = {} THEN open
     ELSE AutoExpand(open \cup opened, UNION {Kids(i) : i \in opened}, selected)

\* The render after the selected folder and the open nodes changed
Expanded(open, selected) ==
  LET kept == Kept(open)
      mounted == {i \in 1..Len(treeRoots) : Mounts(kept, i)}
      before == {i \in 1..Len(treeRoots) : Mounts(isOpen, i)}
      turned == {i \in mounted : \/ i \notin before
                                 \/ ~hasSelectedChild(treeRoots[i], selectedPath)}
  IN /\ selectedPath' = selected
     /\ isOpen' = AutoExpand(kept, turned, selected)

OpenFrame ==
  /\ CoreFrame
  /\ UNCHANGED <<viewVars, treeVars, sortVars, gridVars, viewerVars, scanVars>>

OpenInit ==
  /\ Mounted /\ BackendInit /\ HistInit /\ ScopeIdle
  /\ ViewsIdle /\ SortIdle /\ GridIdle /\ OpenIdle /\ ViewerIdle /\ ScanIdle
  /\ folders \in ListsOf(OpenPool, MaxFolders)
  /\ treeRoots = buildAncestryTree(folders)

\* setIsOpen(!isOpen)
Toggled(i) == IF i \in isOpen THEN isOpen \ {i} ELSE isOpen \cup {i}

\* A click on the row of a node: it toggles if it is virtual or has children,
\* and a real node is selected
ClickNode ==
  \E i \in 1..Len(treeRoots) :
    /\ Mounts(isOpen, i)
    /\ Expanded(IF treeRoots[i].isVirtual \/ Kids(i) # {} THEN Toggled(i)
                ELSE isOpen,
                IF ~treeRoots[i].isVirtual THEN treeRoots[i].path
                ELSE selectedPath)
    /\ OpenFrame

\* A click on the arrow of a node that has children
ToggleArrow ==
  \E i \in 1..Len(treeRoots) :
    /\ Mounts(isOpen, i)
    /\ Kids(i) # {}
    /\ Expanded(Toggled(i), selectedPath)
    /\ OpenFrame

\* Sidebar: an indexed folder is selected from outside the tree
FolderPicked ==
  \E p \in Range(folders) :
    /\ Expanded(isOpen, p)
    /\ OpenFrame

OpenNext ==
  \/ ClickNode
  \/ ToggleArrow
  \/ FolderPicked

SpecOpen == OpenInit /\ [][OpenNext]_vars

\* C26: a rendered node is treated as having the selected folder below it
\* iff the selected folder's normalized path starts with the node's
\* normalized path followed by a separator.
C26_AncestorAtSeparator ==
  \A i \in 1..Len(treeRoots) :
    Mounts(isOpen, i) =>
      (hasSelectedChild(treeRoots[i], selectedPath)
         <=> isAncestorOf(treeRoots[i].path, selectedPath))

-----------------------------------------------------------------------------
(* SpecViewer: a click on a file of the grid opens the image viewer on it;  *)
(* the viewer moves to the file before and the file after, and the files of *)
(* the folder change while it is open.                                      *)

ViewerFrame ==
  /\ CoreFrame
  /\ UNCHANGED <<viewVars, treeVars, openVars, sortVars, gridVars, scanVars>>

\* handleImageClick: a click on a file the grid has drawn
ImageClick ==
  \E index \in drawn :
    /\ selectedImageIndex' = index
    /\ ViewerFrame

\* handleCloseViewer
CloseViewer ==
  /\ selectedImageIndex # -1
  /\ selectedImageIndex' = -1
  /\ ViewerFrame

\* ImageViewer: ArrowLeft, or the button of the previous image
PreviousImage ==
  /\ selectedImageIndex # -1
  /\ selectedImageIndex > 0
  /\ selectedImageIndex' = selectedImageIndex - 1
  /\ ViewerFrame

\* ImageViewer: ArrowRight, or the button of the next image
NextImage ==
  /\ selectedImageIndex # -1
  /\ selectedImageIndex < fileCount - 1
  /\ selectedImageIndex' = selectedImageIndex + 1
  /\ ViewerFrame

ViewerNext ==
  \/ Measure
  \/ FilesChange
  \/ Scroll
  \/ ImageClick
  \/ CloseViewer
  \/ PreviousImage
  \/ NextImage

SpecViewer == GridInit /\ [][ViewerNext]_vars

-----------------------------------------------------------------------------
(* SpecScan: scanFolder of the gallery store.  Each call awaits scan_folder  *)
(* and then writes the store; the calls in flight return in any order.       *)

\* The number of scan_folder calls in flight
MaxScans == 3

\* What scan_folder answers for a folder
ScanOf(folder) == IF folder = FolderA THEN <<ImageA>> ELSE <<ImageB>>

ScanFrame ==
  /\ CoreFrame
  /\ UNCHANGED <<viewVars, treeVars, openVars, sortVars, gridVars, viewerVars>>

\* The calls in flight without the i-th
Returned(i) ==
  scanning' = SubSeq(scanning, 1, i - 1) \o SubSeq(scanning, i + 1, Len(scanning))

\* scanFolder(folderPath) up to its await: set({ isLoading: true })
ScanFolderCalled ==
  \E folder \in Folders :
    /\ Len(scanning) < MaxScans
    /\ store' = [store EXCEPT !.isLoading = TRUE]
    /\ scanning' = Append([i \in 1..Len(scanning) |->
                              [scanning[i] EXCEPT !.latest = FALSE]],
                           [folderPath |-> folder, latest |-> TRUE])
    /\ requested' = [folderPath |-> folder, ok |-> TRUE]
    /\ ScanFrame

\* scan_folder answers a call: set({ images, currentFolder, isLoading: false })
ScanFolderResolved ==
  \E i \in 1..Len(scanning) :
    /\ store' = [images |-> ScanOf(scanning[i].folderPath),
                 currentFolder |-> scanning[i].folderPath,
                 isLoading |-> FALSE]
    /\ Returned(i)
    /\ UNCHANGED requested
    /\ ScanFrame

\* scan_folder rejects a call: the catch sets isLoading to false
ScanFolderFailed ==
  \E i \in 1..Len(scanning) :
    /\ store' = [store EXCEPT !.isLoading = FALSE]
    /\ Returned(i)
    /\ requested' = IF scanning[i].latest THEN [requested EXCEPT !.ok = FALSE]
                    ELSE requested
    /\ ScanFrame

ScanNext ==
  \/ ScanFolderCalled
  \/ ScanFolderResolved
  \/ ScanFolderFailed

SpecScan == Init /\ [][ScanNext]_vars

\* C30: once every scan_folder call has returned, the store holds the images
\* and the folder of the last scanFolder call (if that call did not fail),
\* in whatever order the calls returned.
C30_LastRequestedWins ==
  (scanning = <<>> /\ requested.folderPath # NULL /\ requested.ok) =>
    /\ store.currentFolder = requested.folderPath
    /\ store.images = ScanOf(requested.folderPath)

====
